---- MODULE Spec2Model ----
\* A model of the ck model registry (ck-models/src/lib.rs) and of the
\* Mixedbread embedder / reranker (ck-embed/src/mixedbread.rs).
\*
\* Three specifications share the variables:
\*   SpecRegistry   ModelRegistry / RerankModelRegistry: construction, load,
\*                  save and resolve;
\*   Spec           one MixedbreadEmbedder or MixedbreadReranker instance and
\*                  the embed / rerank calls made on it;
\*   SpecNormalize  the pure function normalize_row on bounded inputs;
\*   SpecBuild      build_inputs, from the encodings on, on bounded batches.
EXTENDS Integers, Sequences, FiniteSets, TLC

VARIABLES
    kind,           \* which registry type the value has: "embed" | "rerank"
    models,         \* ModelRegistry.models: alias -> config
    default_model,  \* ModelRegistry.default_model
    order,          \* iteration order of the models HashMap (a permutation of its keys)
    file,           \* the registry JSON file at the path given to load / save
    requested,      \* argument of the last resolve call
    result,         \* outcome of the last registry operation
    embedder,       \* the MixedbreadEmbedder instance (or absent)
    reranker,       \* the MixedbreadReranker instance (or absent)
    pc,             \* "idle" | "returned": position of the caller of embed / rerank
    call,           \* record of the embed / rerank / build_inputs call that last returned
    row,            \* SpecNormalize: the raw output row
    dim,            \* SpecNormalize: the target dimension
    values          \* SpecNormalize: the vector normalize_row returned

regVars == <<kind, models, default_model, order, file, requested, result>>
infVars == <<embedder, reranker, pc, call>>
normVars == <<row, dim, values>>
vars == <<kind, models, default_model, order, file, requested, result,
          embedder, reranker, pc, call, row, dim, values>>

--------------------------------------------------------------------------
\* Generic helpers

Range(s) == {s[i] : i \in 1..Len(s)}

Min(a, b) == IF a <= b THEN a ELSE b

Max(a, b) == IF a >= b THEN a ELSE b

\* All sequences over S of length at most n.
SeqsUpTo(S, n) == UNION {[1..k -> S] : k \in 0..n}

Perms(S) ==
    {p \in [1..Cardinality(S) -> S] : \A i, j \in 1..Cardinality(S) : p[i] = p[j] => i = j}

\* Key sets up to this size are iterated in every order; a larger key set
\* in the rotations of one order and of its reverse.
FullOrderSize == 3

\* The orders in which a HashMap with key set S may iterate: the order
\* depends on the per-instance hash seed, so it is any permutation.
Orders(S) ==
    LET n == Cardinality(S)
    IN  IF n <= FullOrderSize THEN Perms(S)
        ELSE LET base == CHOOSE p \in Perms(S) : TRUE
             IN  {[i \in 1..n |-> base[((i + r - 1) % n) + 1]] : r \in 0..(n - 1)}
                 \cup {[i \in 1..n |-> base[((n - i + r) % n) + 1]] : r \in 0..(n - 1)}

\* str::contains: needle occurs in hay as a contiguous substring.
Contains(hay, needle) ==
    \E i \in 1..(Len(hay) - Len(needle) + 1) : SubSeq(hay, i, i + Len(needle) - 1) = needle

StartsWith(hay, prefix) ==
    /\ Len(prefix) <= Len(hay)
    /\ SubSeq(hay, 1, Len(prefix)) = prefix

\* Vec<String>::join(sep)
RECURSIVE Join(_, _)
Join(strs, sep) ==
    IF strs = <<>> THEN ""
    ELSE IF Len(strs) = 1 THEN strs[1]
    ELSE strs[1] \o sep \o Join(Tail(strs), sep)

--------------------------------------------------------------------------
\* Registry: data

EmbedConfig(name, provider, dimensions, max_tokens, description) ==
    [name |-> name, provider |-> provider, dimensions |-> dimensions,
     max_tokens |-> max_tokens, description |-> description]

RerankConfig(name, provider, description) ==
    [name |-> name, provider |-> provider, description |-> description]

\* HashMap::insert
Insert(m, alias, config) ==
    [k \in DOMAIN m \cup {alias} |-> IF k = alias THEN config ELSE m[k]]

EmptyMap == [k \in {} |-> 0]

\* impl Default for ModelRegistry
DefaultModels ==
    LET m0 == EmptyMap
        m1 == Insert(m0, "bge-small",
                 EmbedConfig("BAAI/bge-small-en-v1.5", "fastembed", 384, 512,
                             "Small, fast English embedding model"))
        m2 == Insert(m1, "minilm",
                 EmbedConfig("sentence-transformers/all-MiniLM-L6-v2", "fastembed", 384, 256,
                             "Lightweight English embedding model"))
        m3 == Insert(m2, "nomic-v1.5",
                 EmbedConfig("nomic-embed-text-v1.5", "fastembed", 768, 8192,
                             "High-quality English embedding model with large context window"))
        m4 == Insert(m3, "jina-code",
                 EmbedConfig("jina-embeddings-v2-base-code", "fastembed", 768, 8192,
                             "Code-specific embedding model optimized for programming tasks"))
        m5 == Insert(m4, "mxbai-xsmall",
                 EmbedConfig("mixedbread-ai/mxbai-embed-xsmall-v1", "mixedbread", 384, 4096,
                             "Mixedbread xsmall embedding model"))
    IN  m5

DefaultModelAlias == "bge-small"

DefaultOrders == Orders(DOMAIN DefaultModels)

\* impl Default for RerankModelRegistry
DefaultRerankModels ==
    LET m0 == EmptyMap
        m1 == Insert(m0, "jina",
                 RerankConfig("jina-reranker-v1-turbo-en", "fastembed",
                              "Jina Turbo reranker (default)"))
        m2 == Insert(m1, "bge",
                 RerankConfig("BAAI/bge-reranker-base", "fastembed",
                              "BGE reranker base model for multilingual use cases"))
        m3 == Insert(m2, "mxbai",
                 RerankConfig("mixedbread-ai/mxbai-rerank-xsmall-v1", "mixedbread",
                              "Mixedbread xsmall reranker (quantized)"))
    IN  m3

DefaultRerankAlias == "jina"

--------------------------------------------------------------------------
\* Registry: the inputs the model draws from

\* Largest number of members of the "models" object of a registry file.
MaxFileEntries == 2

\* Aliases a registry file may use.  "org/m1" is also the canonical
\* identifier of a config below, so an alias can coincide with a name.
FileAliases == {"m1", "org/m1"}

\* Configs a registry file may hold: two of them share the canonical
\* identifier "org/m2", one is named like the alias "org/m1".
FileEmbedConfigs ==
    { EmbedConfig("org/m1", "p", 384, 512, "d1"),
      EmbedConfig("org/m2", "p", 384, 512, "d2"),
      EmbedConfig("org/m2", "q", 768, 256, "d3") }

FileRerankConfigs ==
    { RerankConfig("org/m1", "p", "d1"),
      RerankConfig("org/m2", "p", "d2"),
      RerankConfig("org/m2", "q", "d3") }

FileDefaults == FileAliases \cup {"gone"}

FileEntries(configs) == [alias : FileAliases, config : configs]

\* The documents serde_json accepts as a registry: an object "models" with
\* members in document order (a key may repeat) and a string "default_model".
FileDocs(configs) ==
    [exists : {TRUE}, valid : {TRUE},
     entries : SeqsUpTo(FileEntries(configs), MaxFileEntries),
     default_model : FileDefaults]

NoFile == [exists |-> FALSE]

\* A file serde_json rejects (not JSON, or not of the registry's schema).
BadFile == [exists |-> TRUE, valid |-> FALSE]

\* The keys resolve is asked for.
Keys ==
    FileAliases
    \cup {"org/m2", "nope", "mxbai-xsmall", "BAAI/bge-small-en-v1.5",
          "mxbai", "mixedbread-ai/mxbai-rerank-xsmall-v1"}

None == [some |-> FALSE]

Some(k) == [some |-> TRUE, value |-> k]

--------------------------------------------------------------------------
\* Registry: operations

\* serde_json::from_str into HashMap<String, _>: members are inserted in
\* document order, a repeated key keeps the last value.
RECURSIVE FromEntries(_)
FromEntries(entries) ==
    IF entries = <<>> THEN EmptyMap
    ELSE LET n == Len(entries)
         IN  Insert(FromEntries(SubSeq(entries, 1, n - 1)),
                    entries[n].alias, entries[n].config)

\* serde_json::to_string_pretty of the registry: the members of "models"
\* are written in the map's iteration order.
ToDoc(m, ord, dflt) ==
    [exists |-> TRUE, valid |-> TRUE,
     entries |-> [i \in 1..Len(ord) |-> [alias |-> ord[i], config |-> m[ord[i]]]],
     default_model |-> dflt]

UnknownPrefix(k) == IF k = "embed" THEN "Unknown model '" ELSE "Unknown rerank model '"

NoDefaultMessage(k) ==
    IF k = "embed" THEN "No default model configured in registry"
    ELSE "No default reranking model configured"

\* A listing that loses the last key.
format_available_models_droplast(ord) ==
    Join(SubSeq(ord, 1, Len(ord) - 1), ", ")

\* format_available_models: the keys in iteration order, joined by ", ".
format_available_models(ord) == Join(ord, ", ")

Ok(alias, config) == [ok |-> TRUE, alias |-> alias, config |-> config]

Err(msg) == [ok |-> FALSE, msg |-> msg]

NotFound == [found |-> FALSE]

\* A lookup that scans the canonical identifiers before the aliases.
resolve_name_before_alias(m, ord, key) ==
    LET hits == {i \in 1..Len(ord) : m[ord[i]].name = key}
    IN  IF hits # {}
        THEN LET first == CHOOSE i \in hits : \A j \in hits : i <= j
             IN  [found |-> TRUE, alias |-> ord[first], config |-> m[ord[first]]]
        ELSE IF key \in DOMAIN m
        THEN [found |-> TRUE, alias |-> key, config |-> m[key]]
        ELSE NotFound

\* A fallback that hands back the key it was asked for in place of the
\* alias that owns the entry.
resolve_alias_or_name_keeps_key(m, ord, key) ==
    IF key \in DOMAIN m
    THEN [found |-> TRUE, alias |-> key, config |-> m[key]]
    ELSE LET hits == {i \in 1..Len(ord) : m[ord[i]].name = key}
         IN  IF hits = {} THEN NotFound
             ELSE LET first == CHOOSE i \in hits : \A j \in hits : i <= j
                  IN  [found |-> TRUE, alias |-> key, config |-> m[ord[first]]]

\* resolve_alias_or_name: exact alias first, then the first entry in
\* iteration order whose config.name equals the key.
resolve_alias_or_name(m, ord, key) ==
    IF key \in DOMAIN m
    THEN [found |-> TRUE, alias |-> key, config |-> m[key]]
    ELSE LET hits == {i \in 1..Len(ord) : m[ord[i]].name = key}
         IN  IF hits = {} THEN NotFound
             ELSE LET first == CHOOSE i \in hits : \A j \in hits : i <= j
                  IN  [found |-> TRUE, alias |-> ord[first], config |-> m[ord[first]]]

\* A default lookup that falls back to some entry when the default alias
\* is not a key.
get_default_model_or_any(m, dflt) ==
    IF dflt \in DOMAIN m THEN [found |-> TRUE, config |-> m[dflt]]
    ELSE IF DOMAIN m # {} THEN [found |-> TRUE, config |-> m[CHOOSE a \in DOMAIN m : TRUE]]
    ELSE NotFound

\* get_default_model / models.get(&self.default_model)
get_default_model(m, dflt) ==
    IF dflt \in DOMAIN m THEN [found |-> TRUE, config |-> m[dflt]] ELSE NotFound

\* resolve(requested)
resolve(k, m, ord, dflt, req) ==
    IF req.some
    THEN LET r == resolve_alias_or_name(m, ord, req.value)
         IN  IF r.found THEN Ok(r.alias, r.config)
             ELSE Err(UnknownPrefix(k) \o req.value \o "'. Available models: "
                      \o format_available_models(ord))
    ELSE LET d == get_default_model(m, dflt)
         IN  IF d.found THEN Ok(dflt, d.config)
             ELSE Err(NoDefaultMessage(k))

--------------------------------------------------------------------------
\* Registry: actions

NoResult == [op |-> "none"]

\* The registry value a successful construction yields; the HashMap it owns
\* is fresh, so its iteration order is any permutation of its keys.
Constructed(k, m, dflt, ord, f, res) ==
    /\ kind' = k
    /\ models' = m
    /\ default_model' = dflt
    /\ order' = ord
    /\ file' = f
    /\ requested' = None
    /\ result' = res

\* ModelRegistry::load(path)
Load ==
    /\ kind = "embed"
    /\ IF ~file.exists
       THEN \E ord \in DefaultOrders :
                Constructed("embed", DefaultModels, DefaultModelAlias, ord, file,
                            [op |-> "load", ok |-> TRUE])
       ELSE IF ~file.valid
       THEN /\ result' = [op |-> "load", ok |-> FALSE]
            /\ UNCHANGED <<kind, models, default_model, order, file, requested>>
       ELSE LET m == FromEntries(file.entries)
            IN  \E ord \in Orders(DOMAIN m) :
                    Constructed("embed", m, file.default_model, ord, file,
                                [op |-> "load", ok |-> TRUE])
    /\ UNCHANGED <<infVars, normVars>>

\* ModelRegistry::save(path)
Save ==
    /\ kind = "embed"
    /\ file' = ToDoc(models, order, default_model)
    /\ result' = [op |-> "save", ok |-> TRUE]
    /\ requested' = None
    /\ UNCHANGED <<kind, models, default_model, order, infVars, normVars>>

\* ModelRegistry::resolve / RerankModelRegistry::resolve
Resolve ==
    /\ \E req \in {None} \cup {Some(k) : k \in Keys} :
        /\ requested' = req
        /\ result' = [op |-> "resolve",
                      out |-> resolve(kind, models, order, default_model, req)]
    /\ UNCHANGED <<kind, models, default_model, order, file, infVars, normVars>>

\* The parts of the state the registry specification does not use.
InfIdle ==
    /\ embedder = [present |-> FALSE]
    /\ reranker = [present |-> FALSE]
    /\ pc = "off"
    /\ call = [op |-> "none"]

NormIdle ==
    /\ row = <<>>
    /\ dim = 0
    /\ values = <<>>

RegIdle ==
    /\ kind = "embed"
    /\ models = EmptyMap
    /\ default_model = ""
    /\ order = <<>>
    /\ file = NoFile
    /\ requested = None
    /\ result = NoResult

\* A registry right after construction; result.op records the path:
\* Default::default(), load(path) of the file at path, or (rerank, which
\* has no load and whose fields are public) the default or a struct literal
\* over the same kind of entries.
InitRegistry ==
    /\ requested = None
    /\ \/ /\ kind = "embed"
          /\ models = DefaultModels
          /\ default_model = DefaultModelAlias
          /\ order \in DefaultOrders
          /\ file \in {NoFile, BadFile}
          /\ result = [op |-> "default", ok |-> TRUE]
       \/ /\ kind = "embed"
          /\ file \in FileDocs(FileEmbedConfigs)
          /\ models = FromEntries(file.entries)
          /\ default_model = file.default_model
          /\ order \in Orders(DOMAIN models)
          /\ result = [op |-> "load", ok |-> TRUE]
       \/ /\ kind = "rerank"
          /\ file = NoFile
          /\ \/ /\ models = DefaultRerankModels
                /\ default_model = DefaultRerankAlias
                /\ result = [op |-> "default", ok |-> TRUE]
             \/ /\ \E d \in FileDocs(FileRerankConfigs) :
                     /\ models = FromEntries(d.entries)
                     /\ default_model = d.default_model
                /\ result = [op |-> "literal", ok |-> TRUE]
          /\ order \in Orders(DOMAIN models)
    /\ InfIdle
    /\ NormIdle

NextRegistry == Load \/ Save \/ Resolve

SpecRegistry == InitRegistry /\ [][NextRegistry]_vars

--------------------------------------------------------------------------
\* f32 values, as far as normalize_row can tell them apart.
\*   "fin"  n / sqrt(r): a finite value whose square is a normal f32; the
\*          tensors of the model hold integers (r = 1), scaling by
\*          1/sqrt(norm) gives the radical;
\*   "tiny" a nonzero value whose square underflows to 0.0 (|x| < 1e-23);
\*   "huge" a finite value whose square overflows to +inf (|x| > 1.9e19);
\*   "inf"  an infinity; "nan" a NaN.
\* Rounding of the finite values is not modelled: it is of the order of
\* 1e-7 per operation, far below the 1e-4 the properties here allow.

Fin(n) == [k |-> "fin", n |-> n, r |-> 1]

Scaled(n, r) == IF n = 0 THEN Fin(0) ELSE [k |-> "fin", n |-> n, r |-> r]

Zero == Fin(0)

Tiny == [k |-> "tiny", n |-> 1, r |-> 1]

Huge == [k |-> "huge", n |-> 1, r |-> 1]

Inf == [k |-> "inf", n |-> 1, r |-> 1]

NaN == [k |-> "nan", n |-> 0, r |-> 1]

\* value * value
FSquare(x) ==
    CASE x.k = "fin"  -> Fin(x.n * x.n)
      [] x.k = "tiny" -> Zero
      [] x.k = "huge" -> Inf
      [] x.k = "inf"  -> Inf
      [] x.k = "nan"  -> NaN

\* norm += square  (both operands are sums of squares)
FAdd(a, b) ==
    IF a.k = "nan" \/ b.k = "nan" THEN NaN
    ELSE IF a.k = "inf" \/ b.k = "inf" THEN Inf
    ELSE Fin(a.n + b.n)

\* norm > 0.0: false for a NaN
FGtZero(x) ==
    CASE x.k = "fin" -> x.n > 0
      [] x.k = "inf" -> TRUE
      [] x.k = "nan" -> FALSE

\* norm.sqrt().recip(), for norm > 0.0: 1/sqrt(n), and 0.0 for +inf
FRecipSqrt(x) ==
    IF x.k = "inf" THEN Zero ELSE Scaled(1, x.n)

\* *value *= inv, inv being 0.0 or 1/sqrt(n)
FMul(v, inv) ==
    IF inv = Zero
    THEN IF v.k \in {"inf", "nan"} THEN NaN ELSE Zero
    ELSE CASE v.k = "fin"  -> Scaled(v.n, inv.r)
           [] v.k = "tiny" -> Tiny
           [] v.k = "huge" -> Huge
           [] v.k = "inf"  -> Inf
           [] v.k = "nan"  -> NaN

\* The sum of the squares of the first n values of r, from 0.0.
RECURSIVE SumSquares(_, _)
SumSquares(r, n) ==
    IF n = 0 THEN Zero ELSE FAdd(SumSquares(r, n - 1), FSquare(r[n]))

\* A normalize_row whose norm runs over the whole raw row.
normalize_row_norm_of_all(r, d) ==
    LET take == Min(Len(r), d)
        copied == [i \in 1..d |-> IF i <= take THEN r[i] ELSE Zero]
        norm == SumSquares(r, Len(r))
    IN  IF FGtZero(norm)
        THEN [i \in 1..d |-> IF i <= take THEN FMul(copied[i], FRecipSqrt(norm))
                                         ELSE copied[i]]
        ELSE copied

\* normalize_row(row, dim)
normalize_row(r, d) ==
    LET take == Min(Len(r), d)
        copied == [i \in 1..d |-> IF i <= take THEN r[i] ELSE Zero]
        norm == SumSquares(r, take)
    IN  IF FGtZero(norm)
        THEN [i \in 1..d |-> IF i <= take THEN FMul(copied[i], FRecipSqrt(norm))
                                         ELSE copied[i]]
        ELSE copied

--------------------------------------------------------------------------
\* Tokenizer (an external capability): a stand-in that encodes one token per
\* character and rejects a text holding '!'.

CharId(c) ==
    CASE c = "a" -> 11
      [] c = "b" -> 12
      [] c = "q" -> 13
      [] OTHER -> 99

TokenIds(text) == [i \in 1..Len(text) |-> CharId(SubSeq(text, i, i))]

Const(n, v) == [i \in 1..n |-> v]

\* tokenizer.encode(text, true)
Encode(text) ==
    IF Contains(text, "!") THEN [ok |-> FALSE]
    ELSE [ok |-> TRUE, ids |-> TokenIds(text),
          mask |-> Const(Len(text), 1), type_ids |-> Const(Len(text), 0)]

\* tokenizer.encode(EncodeInput::Dual(query, doc), true)
EncodePair(query, doc) ==
    IF Contains(query, "!") \/ Contains(doc, "!") THEN [ok |-> FALSE]
    ELSE [ok |-> TRUE, ids |-> TokenIds(query) \o TokenIds(doc),
          mask |-> Const(Len(query) + Len(doc), 1),
          type_ids |-> Const(Len(query), 0) \o Const(Len(doc), 1)]

\* An encode loop that drops the inputs the tokenizer fails on and goes on.
RECURSIVE EncodeLoop_skip_failed(_, _, _)
EncodeLoop_skip_failed(encs, i, done) ==
    IF i > Len(encs) THEN [ok |-> TRUE, encodings |-> done, calls |-> Len(encs)]
    ELSE IF ~encs[i].ok THEN EncodeLoop_skip_failed(encs, i + 1, done)
    ELSE EncodeLoop_skip_failed(encs, i + 1, Append(done, encs[i]))

\* The encode loop of build_inputs: inputs are encoded in order, the first
\* failure ends the loop.  encs[i] is the outcome of encoding input i.
RECURSIVE EncodeLoop(_, _, _)
EncodeLoop(encs, i, done) ==
    IF i > Len(encs) THEN [ok |-> TRUE, encodings |-> done, calls |-> Len(encs)]
    ELSE IF ~encs[i].ok THEN [ok |-> FALSE, encodings |-> <<>>, calls |-> i]
    ELSE EncodeLoop(encs, i + 1, Append(done, encs[i]))

--------------------------------------------------------------------------
\* Tensor batch builder

RECURSIVE MaxLenOf(_, _)
MaxLenOf(encodings, n) ==
    IF n = 0 THEN 0 ELSE Max(MaxLenOf(encodings, n - 1), Len(encodings[n].ids))

\* A sequence length without the floor of 1.
SeqLen_unfloored(encodings, max_length) ==
    LET longest == IF encodings = <<>> THEN 1 ELSE MaxLenOf(encodings, Len(encodings))
    IN  Min(longest, max_length)

\* encodings.iter().map(len).max().unwrap_or(1).min(max_length).max(1)
SeqLen(encodings, max_length) ==
    LET longest == IF encodings = <<>> THEN 1 ELSE MaxLenOf(encodings, Len(encodings))
    IN  Max(Min(longest, max_length), 1)

\* A row copy that stops one value short.
PaddedRow_one_short(src, len, seq_len) ==
    [c \in 1..seq_len |-> IF c <= Min(len, seq_len) - 1 THEN src[c] ELSE 0]

\* One row of a (batch, seq_len) buffer: the first min(len, seq_len) values
\* of src, zeros after them.
PaddedRow(src, len, seq_len) ==
    [c \in 1..seq_len |-> IF c <= Min(len, seq_len) THEN src[c] ELSE 0]

Tensor2(rows, ncols) == [shape |-> <<Len(rows), ncols>>, rows |-> rows]

NoTensor == [some |-> FALSE]

\* build_inputs, from the encodings on: (ids, attention mask, token types)
BuildTensors(encodings, max_length, requires_token_type_ids) ==
    LET seq_len == SeqLen(encodings, max_length)
        batch == Len(encodings)
        input_ids == [r \in 1..batch |->
            PaddedRow(encodings[r].ids, Len(encodings[r].ids), seq_len)]
        attention_mask == [r \in 1..batch |->
            PaddedRow(encodings[r].mask, Len(encodings[r].ids), seq_len)]
        token_types == [r \in 1..batch |->
            IF encodings[r].type_ids # <<>>
            THEN PaddedRow(encodings[r].type_ids, Len(encodings[r].ids), seq_len)
            ELSE Const(seq_len, 0)]
    IN  [input_ids |-> Tensor2(input_ids, seq_len),
         attention_mask |-> Tensor2(attention_mask, seq_len),
         token_types |-> IF requires_token_type_ids
                         THEN [some |-> TRUE, value |-> Tensor2(token_types, seq_len)]
                         ELSE NoTensor]

\* Engine inputs without the token types.
EngineInputs_two(built, requires_token_type_ids) ==
    <<built.input_ids, built.attention_mask>>

\* The tensors handed to session.run: three when the flag is set, else two.
EngineInputs(built, requires_token_type_ids) ==
    IF requires_token_type_ids
    THEN <<built.input_ids, built.attention_mask, built.token_types.value>>
    ELSE <<built.input_ids, built.attention_mask>>

--------------------------------------------------------------------------
\* Inference engine (an external capability) and the instances

\* Bounds of the calls: texts / documents per call, width of an output
\* row, the largest dimension of an embedder, engine runs per instance.
MaxBatch == 2

MaxWidth == 2

MaxDim == 2

MaxRuns == 2

\* The engine may return more rows than it was given.
MaxRows == MaxBatch + 1

\* Lengths of the middle (token) axis of a rank-3 output.
SeqAxis == {0, 1, 2}

\* max_tokens of the embedding models of the model; the texts below encode
\* to at most 2 tokens, so 0 and 1 are limits that bind on them.
TokenLimits == {0, 1, 2, 4}

Texts == {"", "ab", "!"}

Queries == {"q"}

GraphInputs ==
    { <<"input_ids", "attention_mask">>,
      <<"input_ids", "attention_mask", "token_type_ids">> }

InstanceConfigs ==
    { EmbedConfig("mixedbread-ai/mxbai-embed-xsmall-v1", "mixedbread", d, t, "")
        : d \in 1..MaxDim, t \in TokenLimits }

RERANK_MAX_LENGTH == 512

Absent == [present |-> FALSE]

\* session.inputs().iter().any(|input| input.name() == "token_type_ids")
DeclaresTokenTypes(graph_inputs) == "token_type_ids" \in Range(graph_inputs)

\* MixedbreadEmbedder::new
NewEmbedder(config, graph_inputs) ==
    [present |-> TRUE,
     session |-> [inputs |-> graph_inputs, runs |-> 0],
     dim |-> config.dimensions,
     max_length |-> config.max_tokens,
     model_name |-> config.name,
     requires_token_type_ids |-> DeclaresTokenTypes(graph_inputs)]

\* MixedbreadReranker::new
NewReranker(config, graph_inputs) ==
    [present |-> TRUE,
     session |-> [inputs |-> graph_inputs, runs |-> 0],
     max_length |-> RERANK_MAX_LENGTH,
     requires_token_type_ids |-> DeclaresTokenTypes(graph_inputs)]

\* What session.run and try_extract_array::<f32> can give: a failure of
\* the run, an output that is no f32 tensor, or an f32 tensor of any rank
\* and shape.
NoOutput == [k |-> "none", rank |-> 0, rows |-> <<>>]

RunError == [k |-> "run_err", rank |-> 0, rows |-> <<>>]

NotF32 == [k |-> "not_f32", rank |-> 0, rows |-> <<>>]

OutTensor(rank, rows) == [k |-> "tensor", rank |-> rank, rows |-> rows]

\* Embedding outputs, by shape: a run error, a non-f32 output, or an f32
\* tensor of rank 1..4 whose batch axis has r entries, whose token axis
\* (rank 3) has n and whose last axis has w.
Shape(k, rank, r, n, w) == [k |-> k, rank |-> rank, r |-> r, n |-> n, w |-> w]

NoShape == Shape("none", 0, 0, 0, 0)

EmbedOutputs ==
    {Shape("run_err", 0, 0, 0, 0), Shape("not_f32", 0, 0, 0, 0),
     Shape("tensor", 1, 0, 0, 0), Shape("tensor", 4, 0, 0, 0)}
    \cup {Shape("tensor", 2, r, 0, w) : r \in 0..MaxRows, w \in 0..MaxWidth}
    \cup {Shape("tensor", 3, r, n, w) : r \in 0..MaxRows, n \in SeqAxis, w \in 0..MaxWidth}

\* The tensor of a shape: entry (i, j) of a rank-2 tensor is i + j - 1,
\* entry (i, t, j) of a rank-3 tensor is i + j - 1 + 3 * (t - 1).
EmbedTensor(sh) ==
    CASE sh.rank = 2 ->
            OutTensor(2, [i \in 1..sh.r |-> [j \in 1..sh.w |-> Fin(i + j - 1)]])
      [] sh.rank = 3 ->
            OutTensor(3, [i \in 1..sh.r |-> [t \in 1..sh.n |->
                            [j \in 1..sh.w |-> Fin(i + j - 1 + 3 * (t - 1))]]])
      [] OTHER -> OutTensor(sh.rank, <<>>)

\* Reranker outputs: the first column of a logits row is any of LogitVals,
\* further columns hold 1.0.
LogitVals == {Fin(-2), Fin(2), NaN}

LogitRow(first, w) == IF w = 0 THEN <<>> ELSE <<first>> \o Const(w - 1, Fin(1))

RerankOutputs ==
    {RunError, NotF32, OutTensor(1, <<>>), OutTensor(3, <<>>)}
    \cup {OutTensor(2, [i \in 1..Len(firsts) |-> LogitRow(firsts[i], w)])
            : firsts \in SeqsUpTo(LogitVals, MaxRows), w \in 0..MaxWidth}

--------------------------------------------------------------------------
\* Output post-processor

Returned(op, query, inputs, status, value, msg, encode_calls, engine_inputs, output) ==
    [op |-> op, query |-> query, inputs |-> inputs, status |-> status,
     value |-> value, msg |-> msg, encode_calls |-> encode_calls,
     engine_inputs |-> engine_inputs, output |-> output]

NoCall == [op |-> "none"]

\* MixedbreadEmbedder::normalize: rank 2 row-wise, rank 3 the first token
\* of each batch row (index_axis panics when the token axis is empty), any
\* other rank an error.
normalize(out, d) ==
    CASE out.rank = 2 ->
            [status |-> "ok", msg |-> "",
             value |-> [i \in 1..Len(out.rows) |-> normalize_row(out.rows[i], d)]]
      [] out.rank = 3 ->
            IF \E i \in 1..Len(out.rows) : out.rows[i] = <<>>
            THEN [status |-> "panic", msg |-> "index out of bounds", value |-> <<>>]
            ELSE [status |-> "ok", msg |-> "",
                  value |-> [i \in 1..Len(out.rows) |->
                                normalize_row(out.rows[i][1], d)]]
      [] OTHER ->
            [status |-> "err", msg |-> "Unexpected embedding tensor rank", value |-> <<>>]

\* f32 exp at the logits of the model, in thousandths.
ScoreScale == 1000

ExpMilli(n) ==
    CASE n = -2 -> 135
      [] n = -1 -> 368
      [] n = 0 -> 1000
      [] n = 1 -> 2718
      [] n = 2 -> 7389

Score(milli) == [nan |-> FALSE, milli |-> milli]

NaNScore == [nan |-> TRUE, milli |-> 0]

\* 1.0 / (1.0 + (-logit).exp()), in thousandths
Sigmoid(logit) ==
    CASE logit.k = "nan" -> NaNScore
      [] logit.k \in {"inf", "huge"} -> IF logit.n > 0 THEN Score(ScoreScale) ELSE Score(0)
      [] logit.k = "tiny" -> Score(ScoreScale \div 2)
      [] logit.k = "fin" ->
            Score((ScoreScale * ScoreScale) \div (ScoreScale + ExpMilli(-logit.n)))

\* row.get(0).copied().unwrap_or_else(|| row.iter().copied().next().unwrap_or(0.0))
FirstLogit(r) == IF Len(r) >= 1 THEN r[1] ELSE Zero

--------------------------------------------------------------------------
\* Embedder / reranker facades.  `out` is what the engine gives if the call
\* gets as far as running it.

Ran(self) == [self EXCEPT !.session.runs = @ + 1]

\* An embed without the early return for an empty batch.
embed_without_empty_return(self, texts, out) ==
    LET enc == EncodeLoop([i \in 1..Len(texts) |-> Encode(texts[i])], 1, <<>>)
    IN  IF ~enc.ok
        THEN [self |-> self,
              ret |-> Returned("embed", "", texts, "err", <<>>, "Tokenizer encode failed",
                               enc.calls, <<>>, NoShape)]
        ELSE
        LET built == BuildTensors(enc.encodings, self.max_length,
                                  self.requires_token_type_ids)
            given == EngineInputs(built, self.requires_token_type_ids)
            post == IF out.k = "tensor" THEN normalize(EmbedTensor(out), self.dim)
                    ELSE [status |-> "err", value |-> <<>>, msg |-> "inference failed"]
        IN  [self |-> Ran(self),
             ret |-> Returned("embed", "", texts, post.status, post.value, post.msg,
                              enc.calls, given, out)]

\* MixedbreadEmbedder::embed
embed(self, texts, out) ==
    IF texts = <<>>
    THEN [self |-> self,
          ret |-> Returned("embed", "", texts, "ok", <<>>, "", 0, <<>>, NoShape)]
    ELSE
    LET enc == EncodeLoop([i \in 1..Len(texts) |-> Encode(texts[i])], 1, <<>>)
    IN  IF ~enc.ok
        THEN [self |-> self,
              ret |-> Returned("embed", "", texts, "err", <<>>, "Tokenizer encode failed",
                               enc.calls, <<>>, NoShape)]
        ELSE
        LET built == BuildTensors(enc.encodings, self.max_length,
                                  self.requires_token_type_ids)
        IN  IF self.requires_token_type_ids /\ ~built.token_types.some
            THEN [self |-> self,
                  ret |-> Returned("embed", "", texts, "panic", <<>>,
                                   "token type ids required but missing",
                                   enc.calls, <<>>, NoShape)]
            ELSE
            LET given == EngineInputs(built, self.requires_token_type_ids)
                post == IF out.k = "tensor" THEN normalize(EmbedTensor(out), self.dim)
                        ELSE [status |-> "err", value |-> <<>>,
                              msg |-> IF out.k = "run_err" THEN "inference failed"
                                      ELSE "Failed to extract embedding tensor"]
            IN  [self |-> Ran(self),
                 ret |-> Returned("embed", "", texts, post.status, post.value, post.msg,
                                  enc.calls, given, out)]

\* The loop of rerank over the rows of the logits: documents[i] panics when
\* the logits have more rows than there are documents.
Scored(query, documents, rows) ==
    IF Len(rows) > Len(documents)
    THEN [status |-> "panic", msg |-> "index out of bounds", value |-> <<>>]
    ELSE [status |-> "ok", msg |-> "",
          value |-> [i \in 1..Len(rows) |->
                        [query |-> query, document |-> documents[i],
                         score |-> Sigmoid(FirstLogit(rows[i]))]]]

\* MixedbreadReranker::rerank
rerank(self, query, documents, out) ==
    IF documents = <<>>
    THEN [self |-> self,
          ret |-> Returned("rerank", query, documents, "ok", <<>>, "", 0, <<>>, NoOutput)]
    ELSE
    LET enc == EncodeLoop([i \in 1..Len(documents) |-> EncodePair(query, documents[i])],
                          1, <<>>)
    IN  IF ~enc.ok
        THEN [self |-> self,
              ret |-> Returned("rerank", query, documents, "err", <<>>,
                               "Tokenizer encode failed", enc.calls, <<>>, NoOutput)]
        ELSE
        LET built == BuildTensors(enc.encodings, self.max_length,
                                  self.requires_token_type_ids)
        IN  IF self.requires_token_type_ids /\ ~built.token_types.some
            THEN [self |-> self,
                  ret |-> Returned("rerank", query, documents, "panic", <<>>,
                                   "token type ids required but missing",
                                   enc.calls, <<>>, NoOutput)]
            ELSE
            LET given == EngineInputs(built, self.requires_token_type_ids)
                post == IF out.k = "tensor"
                        THEN IF out.rank = 2 THEN Scored(query, documents, out.rows)
                             ELSE [status |-> "err", value |-> <<>>,
                                   msg |-> "incompatible shape"]
                        ELSE [status |-> "err", value |-> <<>>,
                              msg |-> IF out.k = "run_err" THEN "inference failed"
                                      ELSE "Failed to extract reranker logits"]
            IN  [self |-> Ran(self),
                 ret |-> Returned("rerank", query, documents, post.status, post.value,
                                  post.msg, enc.calls, given, out)]

--------------------------------------------------------------------------
\* Embedder / reranker: actions

\* Right after MixedbreadEmbedder::new or MixedbreadReranker::new.
Init ==
    /\ \/ /\ \E c \in InstanceConfigs, g \in GraphInputs : embedder = NewEmbedder(c, g)
          /\ reranker = Absent
       \/ /\ embedder = Absent
          /\ \E g \in GraphInputs :
                reranker = NewReranker(DefaultRerankModels["mxbai"], g)
    /\ pc = "idle"
    /\ call = NoCall
    /\ RegIdle
    /\ NormIdle

\* embedder.embed(texts)
Embed ==
    /\ pc = "idle"
    /\ embedder.present
    /\ \E texts \in SeqsUpTo(Texts, MaxBatch), out \in EmbedOutputs :
        LET r == embed(embedder, texts, out)
        IN  /\ r.self.session.runs <= MaxRuns
            /\ embedder' = r.self
            /\ call' = r.ret
    /\ pc' = "returned"
    /\ UNCHANGED <<reranker, regVars, normVars>>

\* reranker.rerank(query, documents)
Rerank ==
    /\ pc = "idle"
    /\ reranker.present
    /\ \E query \in Queries, documents \in SeqsUpTo(Texts, MaxBatch),
          out \in RerankOutputs :
        LET r == rerank(reranker, query, documents, out)
        IN  /\ r.self.session.runs <= MaxRuns
            /\ reranker' = r.self
            /\ call' = r.ret
    /\ pc' = "returned"
    /\ UNCHANGED <<embedder, regVars, normVars>>

\* The caller takes the result and is ready for its next call; a panic
\* unwinds the caller.
Return ==
    /\ pc = "returned"
    /\ call.status # "panic"
    /\ pc' = "idle"
    /\ call' = NoCall
    /\ UNCHANGED <<embedder, reranker, regVars, normVars>>

Next == Embed \/ Rerank \/ Return

Spec == Init /\ [][Next]_vars

--------------------------------------------------------------------------
\* normalize_row on bounded inputs

\* Longest raw row and largest target dimension given to normalize_row.
MaxRawLen == 3

MaxNormDim == 3

RawVals == {Fin(-1), Zero, Fin(2), Tiny, Huge, Inf, NaN}

InitNormalize ==
    /\ row \in SeqsUpTo(RawVals, MaxRawLen)
    /\ dim \in 1..MaxNormDim
    /\ values = <<>>
    /\ pc = "input"
    /\ embedder = [present |-> FALSE]
    /\ reranker = [present |-> FALSE]
    /\ call = [op |-> "none"]
    /\ RegIdle

NormalizeRow ==
    /\ pc = "input"
    /\ values' = normalize_row(row, dim)
    /\ pc' = "normalized"
    /\ UNCHANGED <<row, dim, regVars, embedder, reranker, call>>

NextNormalize == NormalizeRow

SpecNormalize == InitNormalize /\ [][NextNormalize]_vars

--------------------------------------------------------------------------
\* build_inputs on bounded batches of encodings

\* Longest encoding of a batch given to build_inputs.
MaxTokens == 3

\* An Encoding of n tokens: ids 11, 12, ..; the tokenizer either fills the
\* type ids or leaves them empty.
Encoding(n, typed) ==
    [ok |-> TRUE, ids |-> [i \in 1..n |-> 10 + i], mask |-> Const(n, 1),
     type_ids |-> IF typed THEN Const(n, 1) ELSE <<>>]

Encodings == {Encoding(n, typed) : n \in 0..MaxTokens, typed \in BOOLEAN}

\* The instance build_inputs is a method of.
Self == IF embedder.present THEN embedder ELSE reranker

\* An instance right after construction and a batch its encode loop has
\* encoded without failure.
InitBuild ==
    /\ \/ /\ \E c \in InstanceConfigs, g \in GraphInputs : embedder = NewEmbedder(c, g)
          /\ reranker = Absent
       \/ /\ embedder = Absent
          /\ \E g \in GraphInputs :
                reranker = NewReranker(DefaultRerankModels["mxbai"], g)
    /\ pc = "encoded"
    /\ \E encodings \in SeqsUpTo(Encodings, MaxBatch) :
            call = [op |-> "build_inputs", encodings |-> encodings]
    /\ RegIdle
    /\ NormIdle

\* build_inputs, after its encode loop
BuildInputs ==
    /\ pc = "encoded"
    /\ call' = [op |-> "build_inputs", encodings |-> call.encodings,
                built |-> BuildTensors(call.encodings, Self.max_length,
                                       Self.requires_token_type_ids)]
    /\ pc' = "built"
    /\ UNCHANGED <<embedder, reranker, regVars, normVars>>

NextBuild == BuildInputs

SpecBuild == InitBuild /\ [][NextBuild]_vars

--------------------------------------------------------------------------
\* Registry: properties

ResolvedSome == result.op = "resolve" /\ requested.some

ResolvedNone == result.op = "resolve" /\ ~requested.some

NameOwners(key) == {a \in DOMAIN models : models[a].name = key}

\* C1: resolve(Some(a)) of an alias a of the registry succeeds and returns
\* exactly (a, models[a]), also when another entry's canonical identifier
\* equals a.
C1_AliasResolvesToOwnEntry ==
    (ResolvedSome /\ requested.value \in DOMAIN models)
        => result.out = Ok(requested.value, models[requested.value])

\* An alias was resolved that is also the canonical identifier of another
\* alias's config.
C1_Witness ==
    /\ ResolvedSome
    /\ requested.value \in DOMAIN models
    /\ NameOwners(requested.value) \ {requested.value} # {}
    /\ result.out.ok

\* C2: resolve(Some(key)) of a key that is no alias but is the canonical
\* identifier of an entry succeeds with an alias that owns such an entry and
\* with that alias's config: the pair resolving by that alias returns.
C2_NameFallbackResolves ==
    (ResolvedSome /\ requested.value \notin DOMAIN models
                  /\ NameOwners(requested.value) # {})
        => /\ result.out.ok
           /\ result.out.alias \in NameOwners(requested.value)
           /\ result.out.config = models[result.out.alias]
           /\ result.out = resolve(kind, models, order, default_model,
                                   Some(result.out.alias))

\* A canonical identifier shared by two entries was resolved.
C2_Witness ==
    /\ ResolvedSome
    /\ requested.value \notin DOMAIN models
    /\ Cardinality(NameOwners(requested.value)) = 2
    /\ result.out.ok

\* C3: resolve(None) returns (default_model, models[default_model]); when
\* default_model is no key it fails with the "no default configured" error,
\* which is not the "unknown model" error, and returns no config.
C3_DefaultResolution ==
    ResolvedNone
        => IF default_model \in DOMAIN models
           THEN result.out = Ok(default_model, models[default_model])
           ELSE /\ ~result.out.ok
                /\ result.out.msg = NoDefaultMessage(kind)
                /\ ~StartsWith(result.out.msg, "Unknown")
                /\ result.out # resolve(kind, models, order, default_model,
                                        Some(default_model))

\* resolve(None) failed on a registry that has entries but whose default
\* alias is none of them.
C3_Witness ==
    /\ ResolvedNone
    /\ default_model \notin DOMAIN models
    /\ DOMAIN models # {}
    /\ ~result.out.ok

\* C4: resolve(Some(key)) of a key that is neither an alias nor a canonical
\* identifier fails, and the message contains the key and every alias.
C4_UnknownModelMessage ==
    (ResolvedSome /\ requested.value \notin DOMAIN models
                  /\ NameOwners(requested.value) = {})
        => /\ ~result.out.ok
           /\ Contains(result.out.msg, requested.value)
           /\ \A a \in DOMAIN models : Contains(result.out.msg, a)

\* An unknown key was resolved against a registry of several aliases.
C4_Witness ==
    /\ ResolvedSome
    /\ requested.value \notin DOMAIN models
    /\ NameOwners(requested.value) = {}
    /\ Cardinality(DOMAIN models) >= 2
    /\ ~result.out.ok

\* C5: in every ModelRegistry obtained from Default::default(), from load
\* of a missing file, from load of a file load accepts, or from save
\* followed by load, default_model is a key of models.
C5_DefaultIsAlwaysAKey ==
    kind = "embed" => default_model \in DOMAIN models

--------------------------------------------------------------------------
\* Embedder / reranker: properties

EmbedSucceeded == call.op = "embed" /\ call.status = "ok"

RerankSucceeded == call.op = "rerank" /\ call.status = "ok"

\* C6: a successful embed of a non-empty batch returns exactly texts.len()
\* vectors, each of length dim(), whatever the row count and the width of
\* the tensor the engine returned.
C6_OneVectorOfDimPerText ==
    (EmbedSucceeded /\ call.inputs # <<>>)
        => /\ Len(call.value) = Len(call.inputs)
           /\ \A i \in 1..Len(call.value) : Len(call.value[i]) = embedder.dim

\* C7: a successful rerank returns one entry per document, in input order,
\* each carrying the query and a score in [0,1], for any rank-2 logits.
C7_OneResultPerDocumentInOrder ==
    RerankSucceeded
        => /\ Len(call.value) = Len(call.inputs)
           /\ \A i \in 1..Len(call.inputs) :
                /\ call.value[i].document = call.inputs[i]
                /\ call.value[i].query = call.query
                /\ ~call.value[i].score.nan
                /\ call.value[i].score.milli >= 0
                /\ call.value[i].score.milli <= ScoreScale

\* C8 (as far as all scores are numbers): the list a successful rerank
\* returns is sorted by score, descending.
C8_SortedByScoreDescending ==
    (RerankSucceeded /\ \A i \in 1..Len(call.value) : ~call.value[i].score.nan)
        => \A i \in 1..(Len(call.value) - 1) :
                call.value[i].score.milli >= call.value[i + 1].score.milli

\* C9: embed of an empty text list and rerank of an empty document list
\* return Ok(empty list), make no tokenizer call and no engine run, and
\* leave the instance as it was.
C9_EmptyInputTouchesNothing ==
    [][(pc = "idle" /\ pc' = "returned" /\ call'.inputs = <<>>)
        => /\ call'.status = "ok"
           /\ call'.value = <<>>
           /\ call'.encode_calls = 0
           /\ call'.engine_inputs = <<>>
           /\ call'.output.k = "none"
           /\ embedder' = embedder
           /\ reranker' = reranker]_vars

\* An empty embed returned on an instance that has run the engine before.
C9_Witness ==
    /\ pc = "returned"
    /\ call.op = "embed"
    /\ call.inputs = <<>>
    /\ call.status = "ok"
    /\ embedder.session.runs >= 1

--------------------------------------------------------------------------
\* normalize_row: properties

\* The squared L2 norm of a vector of "fin" and "tiny" values as a fraction
\* <<numerator, denominator>>; a "tiny" value adds less than 1e-46.
RECURSIVE NormSq(_, _)
NormSq(v, n) ==
    IF n = 0 THEN <<0, 1>>
    ELSE LET s == NormSq(v, n - 1)
         IN  IF v[n].k = "fin"
             THEN <<s[1] * v[n].r + v[n].n * v[n].n * s[2], s[2] * v[n].r>>
             ELSE s

\* The L2 norm is 1 (within the rounding of f32, which is below 1e-4).
UnitNorm(v) ==
    /\ \A i \in 1..Len(v) : v[i].k \in {"fin", "tiny"}
    /\ NormSq(v, Len(v))[1] = NormSq(v, Len(v))[2]

AllZero(v) == \A i \in 1..Len(v) : v[i] = Zero

TailIsZero ==
    /\ Len(values) = dim
    /\ \A i \in 1..dim : i > Min(Len(row), dim) => values[i] = Zero

Copied == SubSeq(row, 1, Min(Len(row), dim))

\* C10 as stated, for the raw rows of finite values in the normal range
\* (no NaN, infinity, overflow or underflow is involved): unit L2 norm
\* whenever the raw row has nonzero content, all-zero output when the raw
\* row is all-zero, zero at and beyond min(raw_length, dim).
C10_UnitNormIfRawNonzero ==
    (pc = "normalized" /\ \A i \in 1..Len(row) : row[i].k = "fin")
        => /\ ~AllZero(row) => UnitNorm(values)
           /\ AllZero(row) => AllZero(values)
           /\ TailIsZero

\* C10, amended: the norm is taken over the copied region, the first
\* min(raw_length, dim) values.  If these are all finite, none has a square
\* that overflows and one has a square that does not underflow, the output
\* has unit L2 norm; if they are all zero the output is all-zero, whatever
\* the raw row holds further on; positions at or beyond min(raw_length, dim)
\* are zero.
C10_UnitNormIfCopiedNonzero ==
    pc = "normalized"
        => /\ ( /\ \A i \in 1..Len(Copied) : Copied[i].k \in {"fin", "tiny"}
                /\ \E i \in 1..Len(Copied) : Copied[i].k = "fin" /\ Copied[i] # Zero )
              => UnitNorm(values)
           /\ AllZero(Copied) => AllZero(values)
           /\ TailIsZero

\* A raw row longer than dim was normalised: two nonzero values were copied
\* and scaled, a nonzero value beyond dim was left out.
C10_Witness ==
    /\ pc = "normalized"
    /\ Len(row) > dim
    /\ dim >= 2
    /\ \A i \in 1..dim : row[i].k = "fin" /\ row[i] # Zero
    /\ row[Len(row)] # Zero
    /\ UnitNorm(values)
    /\ values[1] # row[1]

--------------------------------------------------------------------------
\* build_inputs: properties

Built == pc = "built"

\* The longest encoded length of a batch, 0 for the empty batch.
Longest(encodings) ==
    IF encodings = <<>> THEN 0
    ELSE CHOOSE m \in {Len(encodings[i].ids) : i \in 1..Len(encodings)} :
            \A i \in 1..Len(encodings) : Len(encodings[i].ids) <= m

\* t is a 2-D array of shape (n, l): n rows of l values, and says so.
HasShape(t, n, l) ==
    /\ t.shape = <<n, l>>
    /\ Len(t.rows) = n
    /\ \A r \in 1..n : Len(t.rows[r]) = l

\* Row r of tensor t is the first k values of src, then zeros.
RowIsPrefix(t, r, src, k) ==
    \A c \in 1..Len(t.rows[r]) : t.rows[r][c] = IF c <= k THEN src[c] ELSE 0

\* C11: the ids, the attention mask and, when present, the token types that
\* build_inputs returns for N encodings all have shape (N, L), where L is
\* min(longest encoded length, max_tokens), floored at 1.
C11_TensorsShareShape ==
    Built
        => LET n == Len(call.encodings)
               l == Max(Min(Longest(call.encodings), Self.max_length), 1)
           IN  /\ HasShape(call.built.input_ids, n, l)
               /\ HasShape(call.built.attention_mask, n, l)
               /\ call.built.token_types.some
                    => HasShape(call.built.token_types.value, n, l)

\* Three tensors were built for two encodings of different lengths, the
\* longer one over the instance's limit of 2.
C11_Witness ==
    /\ Built
    /\ Len(call.encodings) = 2
    /\ Len(call.encodings[1].ids) = 3
    /\ Len(call.encodings[2].ids) = 1
    /\ Self.max_length = 2
    /\ call.built.token_types.some
    /\ call.built.input_ids.shape = <<2, 2>>

\* The ids and mask rows hold the first min(encoded length, L) values of
\* their input, in order, and zeros after them.
RowsArePaddedPrefixes ==
    \A r \in 1..Len(call.encodings) :
        LET e == call.encodings[r]
            l == call.built.input_ids.shape[2]
        IN  /\ RowIsPrefix(call.built.input_ids, r, e.ids, Min(Len(e.ids), l))
            /\ RowIsPrefix(call.built.attention_mask, r, e.mask, Min(Len(e.ids), l))

\* The number of tokens of input r that its row holds.
TokensKept(r) ==
    Min(Len(call.encodings[r].ids), Len(call.built.input_ids.rows[r]))

\* C12 as stated: rows are zero-padded prefixes, and an input of more than
\* max_tokens tokens is cut to exactly max_tokens tokens.
C12_TruncatedToMaxTokens ==
    Built
        => /\ RowsArePaddedPrefixes
           /\ \A r \in 1..Len(call.encodings) :
                Len(call.encodings[r].ids) > Self.max_length
                    => TokensKept(r) = Self.max_length

\* C12, amended: rows are zero-padded prefixes, and an input of more than
\* max_tokens tokens is cut to exactly max(max_tokens, 1) tokens: to
\* max_tokens when that is positive, to one token when max_tokens is 0.
C12_TruncatedToFlooredMaxTokens ==
    Built
        => /\ RowsArePaddedPrefixes
           /\ \A r \in 1..Len(call.encodings) :
                Len(call.encodings[r].ids) > Self.max_length
                    => /\ TokensKept(r) = Max(Self.max_length, 1)
                       /\ Len(call.built.input_ids.rows[r]) = Max(Self.max_length, 1)

\* A batch was built in which one input was cut to the limit of 2 and a
\* shorter one was padded.
C12_Witness ==
    /\ Built
    /\ Len(call.encodings) = 2
    /\ Self.max_length = 2
    /\ call.encodings[1].ids = <<11, 12, 13>>
    /\ call.built.input_ids.rows[1] = <<11, 12>>
    /\ call.encodings[2].ids = <<11>>
    /\ call.built.input_ids.rows[2] = <<11, 0>>
    /\ call.built.attention_mask.rows[2] = <<1, 0>>

--------------------------------------------------------------------------
\* Registry: determinism of resolve

\* Every argument resolve is called with in the model.
Requests == {None} \cup {Some(k) : k \in Keys}

\* The step yields a registry with the contents of the one before it: the
\* same alias-to-config mapping and the same default (a load of the file
\* the registry was saved to, or a second load of the same file).
SameContents ==
    /\ kind' = kind
    /\ models' = models
    /\ default_model' = default_model

\* C13: two registries with the same alias-to-config mapping and the same
\* default give the same outcome of resolve for every key, the order of
\* the aliases in the unknown-model error and the alias of the
\* canonical-identifier fallback included.
C13_ResolveDependsOnContentsOnly ==
    [][SameContents
        => \A req \in Requests :
                resolve(kind', models', order', default_model', req)
                    = resolve(kind, models, order, default_model, req)]_vars

--------------------------------------------------------------------------
\* Embedder / reranker: engine inputs and failures

\* A step in which embed or rerank is called and returns.
CallStep == pc = "idle" /\ pc' = "returned"

\* The engine was run in the step.
EngineRan == Self'.session.runs > Self.session.runs

\* What the tokenizer gives for input i of the call c.
CallEncoding(c, i) ==
    IF c.op = "embed" THEN Encode(c.inputs[i]) ELSE EncodePair(c.query, c.inputs[i])

TokenizerFails(c) == \E i \in 1..Len(c.inputs) : ~CallEncoding(c, i).ok

\* C14: requires_token_type_ids keeps the value computed at construction
\* from the graph's input names; every engine run is given the ids, the
\* mask and the token types, in that order, when the flag is true and the
\* ids and the mask when it is false; no call ends in "token type ids
\* required but missing".
C14_TokenTypeFlagFixed ==
    [][/\ Self'.requires_token_type_ids = Self.requires_token_type_ids
       /\ Self'.requires_token_type_ids = DeclaresTokenTypes(Self'.session.inputs)
       /\ CallStep => call'.msg # "token type ids required but missing"
       /\ (CallStep /\ EngineRan)
            => LET b == BuildTensors([i \in 1..Len(call'.inputs) |-> CallEncoding(call', i)],
                                     Self.max_length, Self.requires_token_type_ids)
               IN  IF Self.requires_token_type_ids
                   THEN /\ b.token_types.some
                        /\ call'.engine_inputs
                             = <<b.input_ids, b.attention_mask, b.token_types.value>>
                   ELSE call'.engine_inputs = <<b.input_ids, b.attention_mask>>]_vars

\* The second engine run of a reranker whose graph declares token_type_ids
\* was given three tensors, the third one telling query from document.
C14_Witness ==
    /\ pc = "returned"
    /\ reranker.present
    /\ reranker.requires_token_type_ids
    /\ reranker.session.runs = 2
    /\ call.inputs = <<"ab">>
    /\ Len(call.engine_inputs) = 3
    /\ call.engine_inputs[3].rows = <<<<0, 1, 1>>>>

\* C15: a call in which the tokenizer fails on some input returns an error
\* with no vectors or results and does not run the engine; every call runs
\* the engine at most once, and a failed run is returned as an error.
C15_FailuresEndTheCall ==
    [][CallStep
        => /\ Self'.session.runs \in {Self.session.runs, Self.session.runs + 1}
           /\ TokenizerFails(call')
                => /\ call'.status = "err"
                   /\ call'.value = <<>>
                   /\ ~EngineRan
                   /\ call'.engine_inputs = <<>>
           /\ call'.output.k = "run_err"
                => /\ call'.status = "err"
                   /\ call'.value = <<>>
                   /\ Self'.session.runs = Self.session.runs + 1]_vars

\* An embed whose second text the tokenizer rejects returned an error after
\* two encode calls.
C15_Witness ==
    /\ pc = "returned"
    /\ call.op = "embed"
    /\ call.inputs = <<"ab", "!">>
    /\ call.encode_calls = 2
    /\ call.status = "err"
    /\ call.value = <<>>

\* embed returned after the engine gave an f32 tensor.
PostProcessed == pc = "returned" /\ call.op = "embed" /\ call.output.k = "tensor"

\* C16: embed pools by the rank of the raw output: rank 2, every batch row
\* is normalised; rank 3, the first token's vector of every batch row is
\* normalised; any other rank, the call fails with the "unexpected tensor
\* rank" error and returns no vectors.
C16_PoolingByRank ==
    PostProcessed
        => LET out == EmbedTensor(call.output)
           IN  CASE out.rank = 2 ->
                    /\ call.status = "ok"
                    /\ call.value = [i \in 1..Len(out.rows) |->
                                        normalize_row(out.rows[i], embedder.dim)]
                 [] out.rank = 3 ->
                    /\ call.status = "ok"
                    /\ call.value = [i \in 1..Len(out.rows) |->
                                        normalize_row(out.rows[i][1], embedder.dim)]
                 [] OTHER ->
                    /\ call.status = "err"
                    /\ Contains(call.msg, "Unexpected embedding tensor rank")
                    /\ call.value = <<>>

====
